---- MODULE Spec2Model ----
(***************************************************************************)
(* Model of the lip-sync code of                                           *)
(* src/frontend/src/modules/chatbot/ChatModule.jsx:                        *)
(*  - the avatar playback coordinator (AvatarModule, lines 648-911): the   *)
(*    useEffect that plays one utterance, its audio element handlers, its  *)
(*    timers and its requestAnimationFrame render loop (Spec, FairSpec);   *)
(*  - scaleVisemes, getVisemeAtTime and the render loop's inline search    *)
(*    on one viseme sequence (LookupSpec);                                 *)
(*  - one FrameInterpolator (InterpolatorSpec);                            *)
(*  - getFrameForViseme on one sequence and frame map (SelectorSpec);      *)
(*  - the chat turns of ChatModule's handleSend, with the input field and  *)
(*    the auto-speak switch (ChatSpec);                                    *)
(*  - the coordinator again, with a history variable that remembers an     *)
(*    utterance cancelled while its delayed play() was pending             *)
(*    (DelayedStartSpec).                                                  *)
(*                                                                         *)
(* Host semantics the code runs on:                                        *)
(*  - React runs the cleanup returned by the previous run of an effect     *)
(*    (when that run returned one) and then the effect body, in one        *)
(*    synchronous step, whenever currentSpeech changes; on unmount it      *)
(*    runs the registered cleanup.  updateSpeakingState keeps its          *)
(*    identity, so only currentSpeech re-runs the effect.  State setters   *)
(*    take effect with the handler that calls them.                        *)
(*  - setTimeout callbacks with equal delays fire in registration order;   *)
(*    a rendering step (animation frame) may run between two timer         *)
(*    tasks.  The code never clears a timer.                               *)
(*  - An audio element starts paused with readyState 0 and duration NaN;   *)
(*    loading a data: URL ends with metadata and data available            *)
(*    (readyState >= 2, one step here) or with an error event; play()      *)
(*    clears paused and queues the play event, or is rejected by the       *)
(*    host; events of one element are delivered in the order queued;       *)
(*    reaching the end sets ended and queues the ended event, whose task   *)
(*    also sets paused; load() on a detached source drops the element's    *)
(*    queued events.  The error event a detached element receives for      *)
(*    its empty src is delivered before any later 100 ms timer and finds   *)
(*    guard and speaking flag already cleared by the cleanup: it changes   *)
(*    nothing and is left out.                                             *)
(*    A recording may be empty: its duration is then 0 and it ends as      *)
(*    soon as it plays.                                                    *)
(*  - A promise settles at most once, in a later task than the call that   *)
(*    made it; it may never settle.  chatbotAPI.query resolves with the    *)
(*    {response, context_used} object or rejects; avatarAPI.speak returns  *)
(*    a promise.  The conversation is modelled as the addMessage calls     *)
(*    made, in order.  settings is React state: updateSettings replaces    *)
(*    the object, and a running handleSend keeps the one of its render.    *)
(*    React re-renders between two discrete input events, so a handler     *)
(*    called from one sees the state the previous one set.  Texts are      *)
(*    sequences of characters.                                             *)
(*  - A field an object does not have reads as undefined; x || 0 is 0 for  *)
(*    undefined, NaN and 0; arithmetic on undefined gives NaN and every    *)
(*    comparison with NaN is false.  Math.round rounds halves up.          *)
(* A currentSpeech of null behaves as one without audioData, an absent     *)
(* visemeSequence as an empty one.                                         *)
(* The audio clock of the coordinator counts whole seconds; viseme times   *)
(* and the times given to getVisemeAtTime are exact rationals, never       *)
(* negative (audio.currentTime), compared by cross-multiplication; the     *)
(* times given to the interpolator are whole ticks of 12.5 ms.             *)
(* Floating-point rounding is not modelled.                                *)
(* State that only feeds console.log (frameCount, audioStartTime) is not   *)
(* part of the model.                                                      *)
(***************************************************************************)
EXTENDS Integers, Sequences, FiniteSets, TLC

\* ---------------------------------------------------------------- bounds
MaxUtter == 2        \* utterances (changes of currentSpeech) in one run
MaxDur == 2          \* longest actual audio duration, in seconds
NumVisemes == 2      \* events in an utterance's visemeData (one per second)

MaxEvents == 2       \* events in a short viseme sequence given to the utilities
MaxTenths == 12      \* latest time looked up in a short sequence, in tenths of a second

MaxFrame == 3        \* sprite frames 1..MaxFrame given to the interpolator
MaxNow == 6          \* latest time given to the interpolator, in ticks

MaxCandidates == 3   \* longest candidate frame list of a category in a frame map

MaxTurns == 2        \* chat turns (runs of handleSend past its guard) in one run

U == 1..MaxUtter

\* audio.duration before metadata is NaN
NaN == -1

\* 0.2 s nearest-neighbour window, in tenths of a second
FallbackWindowTenths == 2

\* getVisemeAtTime scans sequences shorter than this and bisects the others
LinearLimit == 50

\* transitionDuration of a FrameInterpolator: the default 0.05 s, in ticks of
\* 12.5 ms
TransitionTicks == 4

\* cycleRate of getFrameForViseme: candidate frames per second within a viseme
CycleRate == 8

VARIABLES
  mounted,          \* the AvatarModule component is mounted
  nextUtt,          \* number of the next change of currentSpeech
  cleanupOf,        \* utterance whose effect cleanup React holds (0: none)
  audioRef,         \* audioRef.current: utterance of the audio element (0: null)
  animationRef,     \* animationRef.current: owner of the last rAF handle (0: null)
  isPlayingRef,     \* isPlayingRef.current, the overlapping-playback guard
  isSpeaking,       \* the speaking flag set through updateSpeakingState
  visemeIndex,      \* React state visemeIndex
  progress,         \* React state progress, a fraction <<num, den>>
  audioTime,        \* React state audioTime
  audioDuration,    \* React state audioDuration
  audio,            \* the audio element created for each utterance
  startTimer,       \* pending setTimeout(startAnimation): "none", "first", "poll"
  playTimer,        \* pending setTimeout of the delayed audio.play()
  rafPending,       \* utterances whose animate callback is requested
  visemeData,       \* per closure: visemeData of the utterance's currentSpeech
  durationScale,    \* per closure: durationScale, a fraction <<num, den>>
  scaledVisemes,    \* per closure: scaledVisemes, the sequence used for lookups
  lastVisemeIndex,  \* per closure: lastVisemeIndex
  scaleRuns,        \* per closure: rescales computed by scaleVisemes (0, 1, 2: more)
  lookup,           \* a viseme sequence, its rescaling and the last lookup on it
  interpolator,     \* a FrameInterpolator object
  interpolated,     \* the last call of getInterpolatedFrame: its time and result
  lastCall,         \* the last method called on the interpolator and what it found
  selection,        \* a sequence, a frame map and the last getFrameForViseme on them
  chat,             \* ChatModule: isLoading, the addMessage calls, the requests in flight
  cancelledEarly    \* history: an utterance seen cancelled with its delayed play() pending (0: none)

vars == <<mounted, nextUtt, cleanupOf, audioRef, animationRef, isPlayingRef,
          isSpeaking, visemeIndex, progress, audioTime, audioDuration, audio,
          startTimer, playTimer, rafPending, visemeData, durationScale,
          scaledVisemes, lastVisemeIndex, scaleRuns,
          lookup, interpolator, interpolated, lastCall, selection, chat,
          cancelledEarly>>

\* the refs, the published React state, the audio elements and the requested
\* animation frames: what the handlers and the cleanup read and write
shared == <<audioRef, animationRef, isPlayingRef, isSpeaking, visemeIndex,
            progress, audioTime, audioDuration, audio, rafPending>>
closures == <<visemeData, durationScale, scaledVisemes, lastVisemeIndex, scaleRuns>>
timers == <<startTimer, playTimer>>
\* the exported utilities exercised on their own: getVisemeAtTime and
\* scaleVisemes on one sequence, one FrameInterpolator, getFrameForViseme on
\* one sequence and frame map
utilities == <<lookup, interpolator, interpolated, lastCall, selection>>
\* what the playback coordinator does not touch: the utilities, the chat
\* panel and the history variable
units == <<utilities, chat, cancelledEarly>>

\* ------------------------------------------------------------ arithmetic
Abs(x) == IF x < 0 THEN 0 - x ELSE x

RECURSIVE Gcd(_, _)
Gcd(a, b) == IF b = 0 THEN a ELSE Gcd(b, a % b)

\* the number n/d (n >= 0) in lowest terms; x/NaN and 0/0 are NaN, written
\* <<0, 0>>, and x/0 for x > 0 is Infinity, written <<1, 0>>
Frac(n, d) ==
  IF d = NaN \/ (n = 0 /\ d = 0) THEN <<0, 0>>
  ELSE IF d = 0 THEN <<1, 0>>
  ELSE LET g == Gcd(n, d) IN <<n \div g, d \div g>>

ZeroFrac == <<0, 1>>
One == <<1, 1>>
FromInt(n) == <<n, 1>>
FMul(a, b) == Frac(a[1] * b[1], a[2] * b[2])
FAdd(a, b) == Frac(a[1] * b[2] + b[1] * a[2], a[2] * b[2])
FLt(a, b) == a[1] * b[2] < b[1] * a[2]
FLe(a, b) == a[1] * b[2] <= b[1] * a[2]
\* |a - b| for fractions with positive denominators
FDist(a, b) == Frac(Abs(a[1] * b[2] - b[1] * a[2]), a[2] * b[2])

\* a numeric field an event does not have: it reads as undefined, which +, *
\* and < treat as NaN
Missing == <<0, 0>>

\* x || 0 on a number: 0 for undefined, NaN and 0
OrZero(x) == IF x = Missing THEN ZeroFrac ELSE x

\* viseme.viseme || 0 (an absent category is written NaN)
Category(v) == IF v.viseme = NaN THEN 0 ELSE v.viseme

\* ------------------------------------------------------------ viseme data
\* visemeData of an utterance: n one-second events alternating open (1) and
\* closed (5)
VisemeData(n) ==
  [i \in 1..n |->
     [viseme |-> IF i % 2 = 1 THEN 1 ELSE 5,
      start |-> FromInt(i - 1), duration |-> One]]

\* currentSpeech values: audioData present or not, visemeData possibly empty
Speeches ==
  {[audioData |-> FALSE, visemeData |-> <<>>], [audioData |-> TRUE, visemeData |-> <<>>]}
    \cup {[audioData |-> TRUE, visemeData |-> VisemeData(NumVisemes)]}

\* estimatedDuration of a closure: start + duration of the last event
EstimatedDuration(vd) ==
  IF Len(vd) > 0
  THEN FAdd(OrZero(vd[Len(vd)].start), OrZero(vd[Len(vd)].duration))
  ELSE ZeroFrac

\* category of the i-th event of a generated sequence: open (1), closed (5)
Label(i) == IF i % 2 = 1 THEN 1 ELSE 5

\* an event as the backend may send it: any of viseme, start and duration
\* absent, with or without an end field (start/end times)
Event(viseme, start, duration, withEnd) ==
  [viseme |-> viseme, start |-> start, duration |-> duration,
   end |-> IF withEnd THEN FAdd(OrZero(start), OrZero(duration)) ELSE Missing]

\* the sequences of n events that start at 0 or 0.5 s or nowhere and last
\* 0.5 s or nothing, in any order, with or without categories
ShortSequences(n) ==
  {[i \in 1..n |-> Event(IF labelled THEN Label(i) ELSE NaN,
                         f[i].start, f[i].duration, withEnd)] :
     f \in [1..n -> [start : {Missing, ZeroFrac, <<1, 2>>},
                     duration : {Missing, <<1, 2>>}]],
     labelled \in BOOLEAN, withEnd \in BOOLEAN}

\* a sequence of LinearLimit events that start 0.1 s apart: each lasts 0.1 s,
\* or nothing when degenerate; when wide the first and the last one last 5 s
LongSequence(wide, degenerate, lastStart, withEnd) ==
  [i \in 1..LinearLimit |->
     Event(Label(i),
           IF i = LinearLimit THEN lastStart ELSE Frac(i - 1, 10),
           IF wide /\ i \in {1, LinearLimit} THEN Frac(LinearLimit, 10)
           ELSE IF degenerate THEN Missing ELSE <<1, 10>>,
           withEnd)]

LongSequences ==
  {LongSequence(wide, degenerate, lastStart, FALSE) :
     wide \in BOOLEAN, degenerate \in BOOLEAN,
     lastStart \in {Missing, Frac(LinearLimit - 1, 10)}}

\* the sequences given to scaleVisemes and getVisemeAtTime
VisemeSequences ==
  UNION {ShortSequences(n) : n \in 0..MaxEvents} \cup LongSequences

\* the audio times looked up in a sequence: every 0.1 s in a short one, every
\* 0.5 s up to its estimated end and beyond in a long one
QueryTimes(seq) ==
  IF Len(seq) < LinearLimit
  THEN {Frac(k, 10) : k \in 0..MaxTenths}
  ELSE {Frac(k, 2) : k \in 0..(LinearLimit \div 5 + 1)}

\* an event with a start at 0.5 s or none and either a duration of 0.5 s or
\* an end at 1 s
TimedEvent(viseme, start, byEnd) ==
  [viseme |-> viseme, start |-> start,
   duration |-> IF byEnd THEN Missing ELSE <<1, 2>>,
   end |-> IF byEnd THEN One ELSE Missing]

\* the sequences of n such events, each open (1) or closed (5)
TimedSequences(n) ==
  [1..n -> {TimedEvent(viseme, start, byEnd) :
              viseme \in {1, 5}, start \in {Missing, <<1, 2>>}, byEnd \in BOOLEAN}]

\* the sequences given to getFrameForViseme
SelectorSequences == UNION {TimedSequences(n) : n \in 0..MaxEvents}

\* an entry of a frame map: the list of candidate frames, when there is one
NoEntry == [has |-> FALSE, frames |-> <<>>]
Entry(frames) == [has |-> TRUE, frames |-> frames]

\* MaxCandidates sprite frames of category c, none of them frame 1
FramesOf(c) == [k \in 1..MaxCandidates |-> c * MaxCandidates + k + 1]

\* the frame maps given to getFrameForViseme: for silence (0) and open (1) no
\* entry, an empty list or a full one; no entry for any other category
EntryOf(kind, c) ==
  IF kind = "none" THEN NoEntry
  ELSE IF kind = "empty" THEN Entry(<<>>) ELSE Entry(FramesOf(c))

FrameMaps ==
  {[c \in {0, 1} |-> EntryOf(kinds[c], c)] :
     kinds \in [{0, 1} -> {"none", "empty", "full"}]}

\* the categories asked for
VisemeIndexes == {0, 1, 5}

\* the values audio.duration is read with: NaN, 0, whole seconds
ActualDurations == {NaN, 0} \cup (1..MaxDur)

\* ---------------------------------------------------------- audio elements
\* an audio element that has not been created
NoAudio == [st |-> "none", paused |-> TRUE, ended |-> FALSE, duration |-> NaN,
            currentTime |-> 0, playEv |-> FALSE, endedEv |-> FALSE]

\* new Audio(...): paused, readyState 0, duration NaN
NewAudio == [st |-> "loading", paused |-> TRUE, ended |-> FALSE, duration |-> NaN,
             currentTime |-> 0, playEv |-> FALSE, endedEv |-> FALSE]

\* pause(); currentTime = 0; src = ''; load(): queued events are dropped
TornAudio == [st |-> "torn", paused |-> TRUE, ended |-> FALSE, duration |-> NaN,
              currentTime |-> 0, playEv |-> FALSE, endedEv |-> FALSE]

\* readyState >= 2
Ready(a) == a.st = "ready"

\* the shared state as one record, and its write-back
Cur ==
  [audioRef |-> audioRef, animationRef |-> animationRef,
   isPlayingRef |-> isPlayingRef, isSpeaking |-> isSpeaking,
   visemeIndex |-> visemeIndex, progress |-> progress, audioTime |-> audioTime,
   audioDuration |-> audioDuration, audio |-> audio, rafPending |-> rafPending]

Apply(s) ==
  /\ audioRef' = s.audioRef
  /\ animationRef' = s.animationRef
  /\ isPlayingRef' = s.isPlayingRef
  /\ isSpeaking' = s.isSpeaking
  /\ visemeIndex' = s.visemeIndex
  /\ progress' = s.progress
  /\ audioTime' = s.audioTime
  /\ audioDuration' = s.audioDuration
  /\ audio' = s.audio
  /\ rafPending' = s.rafPending

\* the closure variables of utterance u as one record, and their write-back
Clo(u) ==
  [visemeData |-> visemeData[u], durationScale |-> durationScale[u],
   scaledVisemes |-> scaledVisemes[u], lastVisemeIndex |-> lastVisemeIndex[u],
   scaleRuns |-> scaleRuns[u]]

ApplyClo(u, c) ==
  /\ visemeData' = [visemeData EXCEPT ![u] = c.visemeData]
  /\ durationScale' = [durationScale EXCEPT ![u] = c.durationScale]
  /\ scaledVisemes' = [scaledVisemes EXCEPT ![u] = c.scaledVisemes]
  /\ lastVisemeIndex' = [lastVisemeIndex EXCEPT ![u] = c.lastVisemeIndex]
  /\ scaleRuns' = [scaleRuns EXCEPT ![u] = c.scaleRuns]

\* a closure that no pending timer or animation frame refers to is unreachable:
\* its variables are written back to their initial values (the count of
\* rescale computations is kept)
Unreachable(c) ==
  [visemeData |-> <<>>, durationScale |-> One, scaledVisemes |-> <<>>,
   lastVisemeIndex |-> -1, scaleRuns |-> c.scaleRuns]

\* the closure created by the effect body for visemeData vd
NewClosure(vd) ==
  [visemeData |-> vd, durationScale |-> One, scaledVisemes |-> vd,
   lastVisemeIndex |-> -1, scaleRuns |-> 0]

\* ------------------------------------------------------------ scaleVisemes
\* actualDuration > 0 (false for NaN)
Positive(d) == d # NaN /\ d > 0

\* (C11 mutant) the rescale multiplies the starts and leaves the durations
ScaleVisemesStartsOnly(c, actualDuration) ==
  LET est == EstimatedDuration(c.visemeData) IN
  IF FLt(ZeroFrac, est) /\ Positive(actualDuration)
  THEN LET scale == Frac(actualDuration * est[2], est[1]) IN
       [c EXCEPT !.durationScale = scale,
                 !.scaledVisemes =
                    [i \in 1..Len(c.visemeData) |->
                       [c.visemeData[i] EXCEPT
                          !.start = FMul(OrZero(c.visemeData[i].start), scale)]],
                 !.scaleRuns = IF @ < 2 THEN @ + 1 ELSE @]
  ELSE [c EXCEPT !.scaledVisemes = c.visemeData]

\* (C12 mutant) without two positive durations the rescale keeps the sequence
\* it had computed before
ScaleVisemesKeepsLast(c, actualDuration) ==
  LET est == EstimatedDuration(c.visemeData) IN
  IF FLt(ZeroFrac, est) /\ Positive(actualDuration)
  THEN LET scale == Frac(actualDuration * est[2], est[1]) IN
       [c EXCEPT !.durationScale = scale,
                 !.scaledVisemes =
                    [i \in 1..Len(c.visemeData) |->
                       [c.visemeData[i] EXCEPT
                          !.start = FMul(OrZero(c.visemeData[i].start), scale),
                          !.duration = FMul(OrZero(c.visemeData[i].duration), scale)]],
                 !.scaleRuns = IF @ < 2 THEN @ + 1 ELSE @]
  ELSE c

ScaleVisemes(c, actualDuration) ==
  LET est == EstimatedDuration(c.visemeData) IN
  IF FLt(ZeroFrac, est) /\ Positive(actualDuration)
  THEN LET scale == Frac(actualDuration * est[2], est[1]) IN
       [c EXCEPT !.durationScale = scale,
                 !.scaledVisemes =
                    [i \in 1..Len(c.visemeData) |->
                       [c.visemeData[i] EXCEPT
                          !.start = FMul(OrZero(c.visemeData[i].start), scale),
                          !.duration = FMul(OrZero(c.visemeData[i].duration), scale)]],
                 !.scaleRuns = IF @ < 2 THEN @ + 1 ELSE @]
  ELSE [c EXCEPT !.scaledVisemes = c.visemeData]

\* ------------------------------------------- animate: the inline lookup
\* index of the first event of seq at or after i whose [start, start +
\* duration) holds the time t (a fraction), 0 when there is none
RECURSIVE FirstContaining(_, _, _)
FirstContaining(seq, t, i) ==
  IF i > Len(seq) THEN 0
  ELSE IF FLe(OrZero(seq[i].start), t)
          /\ FLt(t, FAdd(OrZero(seq[i].start), OrZero(seq[i].duration)))
       THEN i
       ELSE FirstContaining(seq, t, i + 1)

\* (C18 mutant) of two events equally near the later one is kept
RECURSIVE ClosestKeepsLater(_, _, _, _)
ClosestKeepsLater(seq, t, i, b) ==
  IF i > Len(seq) THEN b
  ELSE IF FLe(FDist(t, OrZero(seq[i].start)), FDist(t, OrZero(seq[b].start)))
       THEN ClosestKeepsLater(seq, t, i + 1, i)
       ELSE ClosestKeepsLater(seq, t, i + 1, b)

\* index of the event whose start is nearest to t: best so far is b, next is i
RECURSIVE Closest(_, _, _, _)
Closest(seq, t, i, b) ==
  IF i > Len(seq) THEN b
  ELSE IF FLt(FDist(t, OrZero(seq[i].start)), FDist(t, OrZero(seq[b].start)))
       THEN Closest(seq, t, i + 1, i)
       ELSE Closest(seq, t, i + 1, b)

\* currentViseme of one tick at audio time t
CurrentViseme(seq, t) ==
  LET f == FirstContaining(seq, t, 1) IN
  IF f # 0 THEN Category(seq[f])
  ELSE IF Len(seq) > 0
       THEN LET b == Closest(seq, t, 2, 1) IN
            IF FLt(FDist(t, OrZero(seq[b].start)), <<FallbackWindowTenths, 10>>)
            THEN Category(seq[b])
            ELSE 0
       ELSE 0

\* -------------------------------------------------------- getVisemeAtTime
\* viseme.end || (start + (viseme.duration || 0))
EndOf(v, start) ==
  IF OrZero(v.end) # ZeroFrac THEN v.end ELSE FAdd(start, OrZero(v.duration))

\* audioTime >= start && audioTime < end
Within(v, t) ==
  LET start == OrZero(v.start)
  IN FLe(start, t) /\ FLt(t, EndOf(v, start))

\* the linear scan from event i: index of the first event holding the time t,
\* 0 when the scan ends without one
RECURSIVE LinearSearch(_, _, _)
LinearSearch(t, seq, i) ==
  IF i > Len(seq) THEN 0
  ELSE IF Within(seq[i], t) THEN i
       ELSE LinearSearch(t, seq, i + 1)

\* the bisection between left and right (indices from 1): index of the
\* probed event holding the time t, 0 when left passes right
RECURSIVE BinarySearch(_, _, _, _)
BinarySearch(t, seq, left, right) ==
  IF left > right THEN 0
  ELSE LET mid == (left + right) \div 2 IN
       IF Within(seq[mid], t) THEN mid
       ELSE IF FLt(t, OrZero(seq[mid].start))
            THEN BinarySearch(t, seq, left, mid - 1)
            ELSE BinarySearch(t, seq, mid + 1, right)

\* lastViseme.end || (lastViseme.start + (lastViseme.duration || 0))
LastEnd(lastViseme) ==
  IF OrZero(lastViseme.end) # ZeroFrac THEN lastViseme.end
  ELSE FAdd(lastViseme.start, OrZero(lastViseme.duration))

\* (C14 mutant) a time no event holds is silence
GetVisemeAtTimeOrSilence(t, visemeSequence) ==
  IF Len(visemeSequence) = 0 THEN 0
  ELSE LET found == IF Len(visemeSequence) < LinearLimit
                    THEN LinearSearch(t, visemeSequence, 1)
                    ELSE BinarySearch(t, visemeSequence, 1, Len(visemeSequence))
       IN IF found # 0 THEN Category(visemeSequence[found]) ELSE 0

\* an absent sequence is written as the empty one
GetVisemeAtTime(t, visemeSequence) ==
  IF Len(visemeSequence) = 0 THEN 0
  ELSE LET found == IF Len(visemeSequence) < LinearLimit
                    THEN LinearSearch(t, visemeSequence, 1)
                    ELSE BinarySearch(t, visemeSequence, 1, Len(visemeSequence))
           lastViseme == visemeSequence[Len(visemeSequence)]
       IN IF found # 0 THEN Category(visemeSequence[found])
          ELSE IF FLt(t, LastEnd(lastViseme)) THEN Category(lastViseme)
          ELSE 0

\* ---------------------------------------------------- teardown and cleanup
\* (C4 mutant) the teardown forgets the audio element and leaves it playing
TeardownKeepsAudio(s) ==
  [s EXCEPT !.audioRef = 0,
            !.rafPending = IF s.animationRef # 0 THEN @ \ {s.animationRef} ELSE @,
            !.animationRef = 0]

\* "Stop any existing playback": pause and detach the current audio element,
\* cancel the animation frame whose handle animationRef holds
Teardown(s) ==
  [s EXCEPT !.audio = IF s.audioRef # 0
                      THEN [@ EXCEPT ![s.audioRef] = TornAudio] ELSE @,
            !.audioRef = 0,
            !.rafPending = IF s.animationRef # 0 THEN @ \ {s.animationRef} ELSE @,
            !.animationRef = 0]

\* (C36 mutant) the cleanup clears the guard and leaves the speaking flag
CleanupKeepsSpeaking(s) ==
  [Teardown(s) EXCEPT !.audioTime = 0, !.audioDuration = 0, !.visemeIndex = 0,
                      !.isPlayingRef = FALSE]

\* the function the effect returns
Cleanup(s) ==
  [Teardown(s) EXCEPT !.audioTime = 0, !.audioDuration = 0, !.visemeIndex = 0,
                      !.isPlayingRef = FALSE, !.isSpeaking = FALSE]

\* React before an effect run or at unmount: the registered cleanup, if any
RunCleanup(s) == IF cleanupOf # 0 THEN Cleanup(s) ELSE s

\* the effect body passes its early returns for this speech
EffectStarts(s, speech) == speech.audioData /\ ~s.isPlayingRef

\* the effect body past its early returns, for utterance u
EffectBody(s, u) ==
  LET s1 == Teardown(s) IN
  [s1 EXCEPT !.audio = [@ EXCEPT ![u] = NewAudio], !.audioRef = u]

\* ------------------------------------------------------------ the handlers
OnLoadedMetadata(s, d) ==
  [s EXCEPT !.audioDuration = IF Positive(d) THEN d ELSE 0]

OnPlay(s) == [s EXCEPT !.isPlayingRef = TRUE, !.isSpeaking = TRUE]

\* (C5 mutant) the ended handler leaves the guard set
OnEndedKeepsGuard(s) ==
  [s EXCEPT !.isSpeaking = FALSE, !.visemeIndex = 0,
            !.progress = ZeroFrac, !.audioTime = 0, !.audioDuration = 0]

\* (C8 mutant) the ended handler leaves the published duration
OnEndedKeepsDuration(s) ==
  [s EXCEPT !.isPlayingRef = FALSE, !.isSpeaking = FALSE, !.visemeIndex = 0,
            !.progress = ZeroFrac, !.audioTime = 0]

OnEnded(s) ==
  [s EXCEPT !.isPlayingRef = FALSE, !.isSpeaking = FALSE, !.visemeIndex = 0,
            !.progress = ZeroFrac, !.audioTime = 0, !.audioDuration = 0]

OnError(s) == [s EXCEPT !.isPlayingRef = FALSE, !.isSpeaking = FALSE]

\* audio.play().catch(...)
PlayCatch(s) == [s EXCEPT !.isPlayingRef = FALSE, !.isSpeaking = FALSE]

\* ------------------------------------------------------------ animate
\* the closure after one tick that read duration d and time t
AnimateClosure(c, d, t) ==
  LET c1 == IF Positive(d) /\ c.durationScale = One
               /\ FLt(ZeroFrac, EstimatedDuration(c.visemeData))
            THEN ScaleVisemes(c, d) ELSE c
  IN [c1 EXCEPT !.lastVisemeIndex = CurrentViseme(c1.scaledVisemes, FromInt(t))]

\* (C9 mutant) the continuation test looks at paused only
KeepsRunningIgnoresEnded(a) == ~a.paused

\* the tick's continuation test
KeepsRunning(a) == ~a.paused /\ ~a.ended

\* (audioTime / actualDuration) * 100 as animate computes it from audio a:
\* NaN (<<0, 0>>) for a duration of NaN and for 0 / 0, Infinity (<<1, 0>>)
\* for any other division by 0
PublishedProgress(a) == Frac(a.currentTime * 100, a.duration)

\* the shared state after one tick of utterance u's animate on audio a
AnimateShared(s, c, u, a) ==
  LET t == a.currentTime
      d == a.duration
      c2 == AnimateClosure(c, d, t)
      s1 == [s EXCEPT !.audioTime = t,
                      !.visemeIndex = IF c2.lastVisemeIndex # c.lastVisemeIndex
                                      THEN c2.lastVisemeIndex ELSE @,
                      !.audioDuration = d,
                      !.progress = PublishedProgress(a)]
  IN IF KeepsRunning(a)
     THEN [s1 EXCEPT !.rafPending = @ \cup {u}, !.animationRef = u]
     ELSE [s1 EXCEPT !.visemeIndex = 0, !.progress = ZeroFrac, !.audioTime = 0,
                     !.isPlayingRef = FALSE, !.isSpeaking = FALSE]

\* ------------------------------------------------------ FrameInterpolator
\* new FrameInterpolator(): times are whole ticks, frames are integers
NewInterpolator ==
  [transitionDuration |-> TransitionTicks, currentFrame |-> 1, targetFrame |-> 1,
   transitionStartTime |-> 0, isTransitioning |-> FALSE]

\* (C23 mutant) the transition starts over whatever the frame
SetTargetFrameRestarts(fi, frame, currentTime) ==
  [fi EXCEPT !.currentFrame = fi.targetFrame, !.targetFrame = frame,
             !.transitionStartTime = currentTime, !.isTransitioning = TRUE]

SetTargetFrame(fi, frame, currentTime) ==
  IF frame # fi.targetFrame
  THEN [fi EXCEPT !.currentFrame = fi.targetFrame, !.targetFrame = frame,
                  !.transitionStartTime = currentTime, !.isTransitioning = TRUE]
  ELSE fi

\* Math.min(elapsed / transitionDuration, 1.0) >= 1.0
Finished(fi, currentTime) ==
  currentTime - fi.transitionStartTime >= fi.transitionDuration

\* (C20 mutant) the second half of the curve falls back towards the start
EasedNumFallsBack(elapsed, duration) ==
  IF 2 * elapsed < duration
  THEN 2 * elapsed * elapsed
  ELSE 2 * (duration - elapsed) * (duration - elapsed)

\* the eased progress as the numerator of a fraction over transitionDuration
\* squared: 2 p p below one half, 1 - (2 - 2 p)^2 / 2 from there on
EasedNum(elapsed, duration) ==
  IF 2 * elapsed < duration
  THEN 2 * elapsed * elapsed
  ELSE duration * duration - 2 * (duration - elapsed) * (duration - elapsed)

\* Math.round(n / d) for d > 0: halves go up
Round(n, d) == (2 * n + d) \div (2 * d)

\* the frame getInterpolatedFrame(currentTime) returns
InterpolatedFrame(fi, currentTime) ==
  IF ~fi.isTransitioning \/ Finished(fi, currentTime) THEN fi.targetFrame
  ELSE LET d == fi.transitionDuration
           eased == EasedNum(currentTime - fi.transitionStartTime, d)
       IN Round(fi.currentFrame * d * d + (fi.targetFrame - fi.currentFrame) * eased,
                d * d)

\* (C21 mutant) a finished transition is not closed
AfterInterpolationStaysBusy(fi, currentTime) == fi

\* (C37 mutant) a finished transition is closed without collapsing
\* currentFrame to the target
AfterInterpolationKeepsStart(fi, currentTime) ==
  IF fi.isTransitioning /\ Finished(fi, currentTime)
  THEN [fi EXCEPT !.isTransitioning = FALSE]
  ELSE fi

\* the interpolator getInterpolatedFrame(currentTime) leaves
AfterInterpolation(fi, currentTime) ==
  IF fi.isTransitioning /\ Finished(fi, currentTime)
  THEN [fi EXCEPT !.isTransitioning = FALSE, !.currentFrame = fi.targetFrame]
  ELSE fi

\* (C24 mutant) the transition survives the reset
ResetInterpolatorKeepsTransition(fi) ==
  [fi EXCEPT !.currentFrame = fi.targetFrame, !.transitionStartTime = 0]

ResetInterpolator(fi) ==
  [fi EXCEPT !.isTransitioning = FALSE, !.currentFrame = fi.targetFrame,
             !.transitionStartTime = 0]

\* no call of getInterpolatedFrame yet
NotInterpolated == [called |-> FALSE, currentTime |-> 0, frame |-> 0]

\* a method call on the interpolator: the method, its arguments (0 when it
\* takes none), the object it found and the frame last returned before it
Call(op, frame, currentTime) ==
  [op |-> op, frame |-> frame, currentTime |-> currentTime,
   before |-> interpolator, shown |-> interpolated]

\* no method called yet
NoCall ==
  [op |-> "none", frame |-> 0, currentTime |-> 0,
   before |-> NewInterpolator, shown |-> NotInterpolated]

\* ------------------------------------------------------ getFrameForViseme
\* visemeFrameMap[c]: undefined for a category the map has no entry for
MapEntry(visemeFrameMap, c) ==
  IF c \in DOMAIN visemeFrameMap THEN visemeFrameMap[c] ELSE NoEntry

\* (C25 mutant) no fallback to the frames of category 0
CandidateFramesOwnOnly(index, visemeFrameMap) ==
  IF MapEntry(visemeFrameMap, index).has
  THEN MapEntry(visemeFrameMap, index).frames
  ELSE <<1>>

\* visemeFrameMap[index] || visemeFrameMap[0] || [1]: a list, empty or
\* not, is truthy
CandidateFrames(index, visemeFrameMap) ==
  IF MapEntry(visemeFrameMap, index).has
  THEN MapEntry(visemeFrameMap, index).frames
  ELSE IF MapEntry(visemeFrameMap, 0).has
       THEN MapEntry(visemeFrameMap, 0).frames
       ELSE <<1>>

\* visemeSequence.find(...) from event i: index of the first event that holds
\* the time t and has the category index (v.viseme === visemeIndex: an absent category
\* equals none), 0 when there is none
RECURSIVE FindViseme(_, _, _, _)
FindViseme(visemeSequence, t, index, i) ==
  IF i > Len(visemeSequence) THEN 0
  ELSE IF Within(visemeSequence[i], t) /\ visemeSequence[i].viseme = index
       THEN i
       ELSE FindViseme(visemeSequence, t, index, i + 1)

\* visemeData.duration is truthy: present and not 0
Truthy(x) == x # Missing /\ x[1] # 0

\* Math.floor(x) for the fraction x
Floor(x) == x[1] \div x[2]

\* t - start for fractions
FSub(t, start) == Frac(t[1] * start[2] - start[1] * t[2], t[2] * start[2])

\* (C26 mutant) the cycle counted from the start of the audio
FrameIndexOfAudio(t, v, length) ==
  Floor(FMul(t, FromInt(CycleRate))) % length

\* Math.floor(timeInViseme * cycleRate) % candidateFrames.length
FrameIndex(t, v, length) ==
  Floor(FMul(FSub(t, OrZero(v.start)), FromInt(CycleRate))) % length

GetFrameForViseme(index, visemeSequence, t, visemeFrameMap) ==
  LET candidateFrames == CandidateFrames(index, visemeFrameMap)
      found == FindViseme(visemeSequence, t, index, 1)
  IN IF Len(candidateFrames) = 0 THEN 1
     ELSE IF found # 0 /\ Truthy(visemeSequence[found].duration)
          THEN candidateFrames[
                 FrameIndex(t, visemeSequence[found], Len(candidateFrames)) + 1]
          ELSE candidateFrames[1]

\* ------------------------------------------------------------- handleSend
Turns == 1..MaxTurns

\* addMessage({role, content}) called by the current run of handleSend
AddMessage(c, role, content) ==
  [c EXCEPT !.messages = Append(@, [role |-> role, content |-> content,
                                    turn |-> c.turn])]

\* the texts typed into the input field, as sequences of characters: empty,
\* blank, a word, a word with white space around it, two words
Inputs ==
  {<<>>, <<" ">>, <<"a">>, <<" ", "a", " ">>, <<"a", " ", "a">>}

\* String.prototype.trim on a sequence of characters
RECURSIVE TrimStart(_)
TrimStart(text) ==
  IF text # <<>> /\ Head(text) = " " THEN TrimStart(Tail(text)) ELSE text

RECURSIVE TrimEnd(_)
TrimEnd(text) ==
  IF text # <<>> /\ text[Len(text)] = " "
  THEN TrimEnd(SubSeq(text, 1, Len(text) - 1)) ELSE text

Trim(text) == TrimEnd(TrimStart(text))

\* handleSend's early return: !input.trim() || isLoading
Blocked(c) == Trim(c.input) = <<>> \/ c.isLoading

\* (C38 mutant) handleSend does not set isLoading
HandleSendNotLoading(c) ==
  LET c1 == [c EXCEPT !.turn = @ + 1]
  IN [AddMessage(c1, "user", Trim(c.input)) EXCEPT
        !.input = <<>>, !.answer[c1.turn] = "pending", !.speakAfter = c.autoSpeak]

\* handleSend up to its await, past the guard: the input cleared, the user
\* message, isLoading, the query in flight; settings is the one of the render
\* handleSend was created in
HandleSend(c) ==
  LET c1 == [c EXCEPT !.turn = @ + 1]
  IN [AddMessage(c1, "user", Trim(c.input)) EXCEPT
        !.input = <<>>, !.isLoading = TRUE, !.answer[c1.turn] = "pending",
        !.speakAfter = c.autoSpeak]

\* (C29 mutant) the turn waits for the speech request: isLoading stays set
OnResponseAwaitsSpeech(c) ==
  LET c1 == AddMessage(c, "assistant", "response")
  IN [c1 EXCEPT !.answer[c.turn] = "answered",
                !.speech[c.turn] = IF c.speakAfter THEN "pending" ELSE @,
                !.isLoading = c.speakAfter]

\* the query resolves: the assistant message, the speech request when
\* autoSpeak is set, then finally
OnResponse(c) ==
  LET c1 == AddMessage(c, "assistant", "response")
  IN [c1 EXCEPT !.answer[c.turn] = "answered",
                !.speech[c.turn] = IF c.speakAfter THEN "pending" ELSE @,
                !.isLoading = FALSE]

\* (C30 mutant) a failed query is only logged
OnQueryErrorLogged(c, kind) ==
  [c EXCEPT !.answer[c.turn] = "failed", !.isLoading = FALSE]

\* the query rejects: the catch block's error message (server error, no
\* response, request set-up error), then finally
OnQueryError(c, kind) ==
  [AddMessage(c, "error", kind) EXCEPT !.answer[c.turn] = "failed",
                                       !.isLoading = FALSE]

\* the speech request of turn k resolves: speak(...) when there is audio
OnSpeechData(c, k, hasAudio) ==
  [c EXCEPT !.speech[k] = IF hasAudio THEN "spoken" ELSE "noAudio"]

\* the speech request of turn k rejects, or its then-callback throws
OnSpeechError(c, k) == [c EXCEPT !.speech[k] = "failed"]

\* ChatModule after its first render
NewChat(autoSpeak) ==
  [messages |-> <<>>, input |-> <<>>, isLoading |-> FALSE,
   autoSpeak |-> autoSpeak,
   speakAfter |-> FALSE, turn |-> 0,
   answer |-> [k \in Turns |-> "none"], speech |-> [k \in Turns |-> "none"]]

\* ------------------------------------------------------------ initial states
\* a sequence before any rescaling or lookup: the closure the effect body
\* would create for it
NewLookup(vd) ==
  [clo |-> NewClosure(vd), rescaled |-> FALSE, actualDuration |-> NaN,
   asked |-> FALSE, audioTime |-> ZeroFrac, visemeAtTime |-> 0,
   currentViseme |-> 0]

\* a sequence and a frame map before any getFrameForViseme on them
NewSelection(visemeSequence, visemeFrameMap) ==
  [visemeSequence |-> visemeSequence, visemeFrameMap |-> visemeFrameMap,
   asked |-> FALSE, visemeIndex |-> 0, audioTime |-> ZeroFrac, frame |-> 0]

\* the utilities not in use
UnitsIdle ==
  /\ lookup = NewLookup(<<>>)
  /\ interpolator = NewInterpolator
  /\ interpolated = NotInterpolated
  /\ lastCall = NoCall
  /\ selection = NewSelection(<<>>, <<>>)
  /\ chat = NewChat(TRUE)
  /\ cancelledEarly = 0

\* the component after its first render, before any currentSpeech
Mounted ==
  /\ mounted = TRUE
  /\ nextUtt = 1
  /\ cleanupOf = 0
  /\ audioRef = 0
  /\ animationRef = 0
  /\ isPlayingRef = FALSE
  /\ isSpeaking = FALSE
  /\ visemeIndex = 0
  /\ progress = ZeroFrac
  /\ audioTime = 0
  /\ audioDuration = 0
  /\ audio = [u \in U |-> NoAudio]
  /\ startTimer = [u \in U |-> "none"]
  /\ playTimer = [u \in U |-> FALSE]
  /\ rafPending = {}
  /\ visemeData = [u \in U |-> <<>>]
  /\ durationScale = [u \in U |-> One]
  /\ scaledVisemes = [u \in U |-> <<>>]
  /\ lastVisemeIndex = [u \in U |-> -1]
  /\ scaleRuns = [u \in U |-> 0]

Init == Mounted /\ UnitsIdle

\* ------------------------------------------------------------ the actions
\* currentSpeech changes: React runs the registered cleanup, then the effect
Arrive(speech) ==
  /\ mounted
  /\ nextUtt <= MaxUtter
  /\ LET u == nextUtt
         s1 == RunCleanup(Cur)
         go == EffectStarts(s1, speech)
         vd == speech.visemeData
     IN /\ Apply(IF go THEN EffectBody(s1, u) ELSE s1)
        /\ cleanupOf' = IF go THEN u ELSE 0
        /\ nextUtt' = u + 1
        /\ playTimer' = IF go THEN [playTimer EXCEPT ![u] = TRUE] ELSE playTimer
        /\ startTimer' = IF go /\ Len(vd) > 0
                         THEN [startTimer EXCEPT ![u] = "first"] ELSE startTimer
        /\ IF go /\ Len(vd) > 0
           THEN ApplyClo(u, NewClosure(vd))
           ELSE UNCHANGED closures
        /\ UNCHANGED mounted
  /\ UNCHANGED units

\* the component unmounts: React runs the registered cleanup
Unmount ==
  /\ mounted
  /\ mounted' = FALSE
  /\ Apply(RunCleanup(Cur))
  /\ cleanupOf' = 0
  /\ UNCHANGED <<nextUtt, timers, closures>>
  /\ UNCHANGED units

\* the audio of utterance u loads: readyState >= 2, duration d known
LoadedMetadata(u, d) ==
  /\ audio[u].st = "loading"
  /\ Apply(OnLoadedMetadata(
       [Cur EXCEPT !.audio = [@ EXCEPT ![u].st = "ready", ![u].duration = d]], d))
  /\ UNCHANGED <<mounted, nextUtt, cleanupOf, timers, closures>>
  /\ UNCHANGED units

\* the audio of utterance u fails to load: the error event, and the rejection
\* of a pending play() promise, both after a queued play event
AudioError(u) ==
  /\ audio[u].st = "loading"
  /\ ~audio[u].playEv
  /\ LET s1 == [Cur EXCEPT !.audio = [@ EXCEPT ![u].st = "failed"]]
     IN Apply(IF audio[u].paused THEN OnError(s1) ELSE PlayCatch(OnError(s1)))
  /\ UNCHANGED <<mounted, nextUtt, cleanupOf, timers, closures>>
  /\ UNCHANGED units

\* the 100 ms timers registered by effect runs before utterance u's have fired
\* (timers of equal delay fire in registration order)
EarlierTimersFired(u) ==
  \A v \in U : v < u => startTimer[v] # "first" /\ ~playTimer[v]

\* (C35 mutant) the delayed start calls play() on its audio element without
\* comparing it with audioRef.current
PlayTimerUnchecked(u, allowed) ==
  /\ playTimer[u]
  /\ startTimer[u] # "first"
  /\ EarlierTimersFired(u)
  /\ playTimer' = [playTimer EXCEPT ![u] = FALSE]
  /\ Apply(IF allowed /\ audio[u].st # "failed"
           THEN [Cur EXCEPT !.audio = [@ EXCEPT ![u].paused = FALSE,
                                                ![u].playEv = TRUE]]
           ELSE PlayCatch(Cur))
  /\ UNCHANGED <<mounted, nextUtt, cleanupOf, startTimer, closures>>
  /\ UNCHANGED units

\* the 100 ms timer of the delayed play() fires, after the startAnimation
\* timer registered before it; the host allows playback or rejects play()
PlayTimer(u, allowed) ==
  /\ playTimer[u]
  /\ startTimer[u] # "first"
  /\ EarlierTimersFired(u)
  /\ playTimer' = [playTimer EXCEPT ![u] = FALSE]
  /\ Apply(IF audioRef = u
           THEN IF allowed /\ audio[u].st # "failed"
                THEN [Cur EXCEPT !.audio = [@ EXCEPT ![u].paused = FALSE,
                                                     ![u].playEv = TRUE]]
                ELSE PlayCatch(Cur)
           ELSE Cur)
  /\ UNCHANGED <<mounted, nextUtt, cleanupOf, startTimer, closures>>
  /\ UNCHANGED units

\* the play event of utterance u's audio is delivered
PlayEvent(u) ==
  /\ audio[u].playEv
  /\ Apply(OnPlay([Cur EXCEPT !.audio = [@ EXCEPT ![u].playEv = FALSE]]))
  /\ UNCHANGED <<mounted, nextUtt, cleanupOf, timers, closures>>
  /\ UNCHANGED units

\* one second of playback of utterance u's audio, or what is left of it
Tick(u) ==
  /\ Ready(audio[u])
  /\ ~audio[u].paused /\ ~audio[u].ended
  /\ LET t == IF audio[u].currentTime + 1 < audio[u].duration
              THEN audio[u].currentTime + 1 ELSE audio[u].duration
         end == t >= audio[u].duration
     IN audio' = [audio EXCEPT ![u].currentTime = t, ![u].ended = end,
                               ![u].endedEv = end]
  /\ UNCHANGED <<mounted, nextUtt, cleanupOf, audioRef, animationRef,
                 isPlayingRef, isSpeaking, visemeIndex, progress, audioTime,
                 audioDuration, rafPending, timers, closures>>
  /\ UNCHANGED units

\* the ended event of utterance u's audio is delivered (after its play event)
EndedEvent(u) ==
  /\ audio[u].endedEv
  /\ ~audio[u].playEv
  /\ Apply(OnEnded([Cur EXCEPT !.audio = [@ EXCEPT ![u].endedEv = FALSE,
                                                    ![u].paused = TRUE]]))
  /\ UNCHANGED <<mounted, nextUtt, cleanupOf, timers, closures>>
  /\ UNCHANGED units

\* a startAnimation timer of utterance u fires
StartAnimation(u) ==
  /\ startTimer[u] # "none"
  /\ startTimer[u] = "first" => EarlierTimersFired(u)
  /\ IF audioRef # 0 /\ Ready(audio[audioRef])
     THEN /\ ApplyClo(u, IF Positive(audio[audioRef].duration)
                         THEN ScaleVisemes(Clo(u), audio[audioRef].duration)
                         ELSE Clo(u))
          /\ rafPending' = rafPending \cup {u}
          /\ animationRef' = u
          /\ startTimer' = [startTimer EXCEPT ![u] = "none"]
     ELSE /\ startTimer' = [startTimer EXCEPT ![u] = "poll"]
          /\ UNCHANGED <<closures, rafPending, animationRef>>
  /\ UNCHANGED <<mounted, nextUtt, cleanupOf, audioRef, isPlayingRef, isSpeaking,
                 visemeIndex, progress, audioTime, audioDuration, audio, playTimer>>
  /\ UNCHANGED units

\* the requested animation frame of utterance u's animate runs
Animate(u) ==
  /\ u \in rafPending
  /\ LET s0 == [Cur EXCEPT !.rafPending = @ \ {u}] IN
     IF audioRef = 0
     THEN Apply(s0) /\ ApplyClo(u, Unreachable(Clo(u)))
     ELSE LET c2 == AnimateClosure(Clo(u), audio[audioRef].duration,
                                   audio[audioRef].currentTime)
          IN /\ Apply(AnimateShared(s0, Clo(u), u, audio[audioRef]))
             /\ ApplyClo(u, IF KeepsRunning(audio[audioRef])
                            THEN c2 ELSE Unreachable(c2))
  /\ UNCHANGED <<mounted, nextUtt, cleanupOf, timers>>
  /\ UNCHANGED units

Next ==
  \/ \E speech \in Speeches : Arrive(speech)
  \/ Unmount
  \/ \E u \in U, d \in 0..MaxDur : LoadedMetadata(u, d)
  \/ \E u \in U : AudioError(u)
  \/ \E u \in U, allowed \in BOOLEAN : PlayTimer(u, allowed)
  \/ \E u \in U : PlayEvent(u)
  \/ \E u \in U : Tick(u)
  \/ \E u \in U : EndedEvent(u)
  \/ \E u \in U : StartAnimation(u)
  \/ \E u \in U : Animate(u)

Spec == Init /\ [][Next]_vars

\* the media element keeps going: a data: URL finishes loading (unless it
\* fails), a playing audio advances, a queued ended event is delivered.
\* Arrivals and unmounting are up to the user.
Fairness ==
  /\ WF_vars(\E u \in U, d \in 0..MaxDur : LoadedMetadata(u, d))
  /\ WF_vars(\E u \in U : Tick(u))
  /\ WF_vars(\E u \in U : EndedEvent(u))

FairSpec == Spec /\ Fairness

\* ------------------------------------------ the lookup utilities on their own
\* the variables of the playback coordinator
coordinator == <<mounted, nextUtt, cleanupOf, shared, timers, closures>>

\* scaleVisemes(actualDuration) on the sequence, any number of times
Rescale(actualDuration) ==
  /\ ~lookup.asked
  /\ lookup' = [lookup EXCEPT
                  !.clo = ScaleVisemes(lookup.clo, actualDuration),
                  !.rescaled = TRUE,
                  !.actualDuration = actualDuration]
  /\ UNCHANGED <<coordinator, interpolator, interpolated, lastCall, selection, chat, cancelledEarly>>

\* getVisemeAtTime and the render loop's inline search, both at audioTime on
\* the sequence used for lookups (a lookup changes nothing a later one would
\* read: one is followed per run)
Lookup(t) ==
  /\ ~lookup.asked
  /\ lookup' = [lookup EXCEPT
                  !.asked = TRUE,
                  !.audioTime = t,
                  !.visemeAtTime = GetVisemeAtTime(t, lookup.clo.scaledVisemes),
                  !.currentViseme = CurrentViseme(lookup.clo.scaledVisemes, t)]
  /\ UNCHANGED <<coordinator, interpolator, interpolated, lastCall, selection, chat, cancelledEarly>>

LookupInit ==
  /\ Mounted
  /\ lookup \in {NewLookup(vd) : vd \in VisemeSequences}
  /\ interpolator = NewInterpolator
  /\ interpolated = NotInterpolated
  /\ lastCall = NoCall
  /\ selection = NewSelection(<<>>, <<>>)
  /\ chat = NewChat(TRUE)
  /\ cancelledEarly = 0

LookupNext ==
  \/ \E d \in ActualDurations : Rescale(d)
  \/ \E t \in QueryTimes(lookup.clo.visemeData) : Lookup(t)

LookupSpec == LookupInit /\ [][LookupNext]_vars

\* -------------------------------------------- one FrameInterpolator on its own
Frames == 1..MaxFrame
Nows == 0..MaxNow

SetTarget(frame, currentTime) ==
  /\ interpolator' = SetTargetFrame(interpolator, frame, currentTime)
  /\ interpolated' = NotInterpolated
  /\ lastCall' = Call("setTargetFrame", frame, currentTime)
  /\ UNCHANGED <<coordinator, lookup, selection, chat, cancelledEarly>>

GetFrame(currentTime) ==
  /\ interpolated' = [called |-> TRUE, currentTime |-> currentTime,
                      frame |-> InterpolatedFrame(interpolator, currentTime)]
  /\ interpolator' = AfterInterpolation(interpolator, currentTime)
  /\ lastCall' = Call("getInterpolatedFrame", 0, currentTime)
  /\ UNCHANGED <<coordinator, lookup, selection, chat, cancelledEarly>>

Reset ==
  /\ interpolator' = ResetInterpolator(interpolator)
  /\ interpolated' = NotInterpolated
  /\ lastCall' = Call("reset", 0, 0)
  /\ UNCHANGED <<coordinator, lookup, selection, chat, cancelledEarly>>

InterpolatorNext ==
  \/ \E frame \in Frames, currentTime \in Nows : SetTarget(frame, currentTime)
  \/ \E currentTime \in Nows : GetFrame(currentTime)
  \/ Reset

InterpolatorSpec == Init /\ [][InterpolatorNext]_vars

\* ------------------------------------------------- getFrameForViseme on its own
\* getFrameForViseme(index, visemeSequence, t, visemeFrameMap): the
\* function keeps no state, one call is followed per run
Select(index, t) ==
  /\ ~selection.asked
  /\ selection' = [selection EXCEPT
                     !.asked = TRUE,
                     !.visemeIndex = index,
                     !.audioTime = t,
                     !.frame = GetFrameForViseme(index, selection.visemeSequence,
                                                 t, selection.visemeFrameMap)]
  /\ UNCHANGED <<coordinator, lookup, interpolator, interpolated, lastCall, chat,
                 cancelledEarly>>

SelectorInit ==
  /\ Mounted
  /\ lookup = NewLookup(<<>>)
  /\ interpolator = NewInterpolator
  /\ interpolated = NotInterpolated
  /\ lastCall = NoCall
  /\ selection \in {NewSelection(seq, map) : seq \in SelectorSequences, map \in FrameMaps}
  /\ chat = NewChat(TRUE)
  /\ cancelledEarly = 0

SelectorNext ==
  \E index \in VisemeIndexes, k \in 0..MaxTenths : Select(index, Frac(k, 10))

SelectorSpec == SelectorInit /\ [][SelectorNext]_vars

\* --------------------------------------------------- the chat panel on its own
\* the user types into the input field (disabled while loading)
Type(text) ==
  /\ ~chat.isLoading
  /\ chat' = [chat EXCEPT !.input = text]
  /\ UNCHANGED <<coordinator, utilities, cancelledEarly>>

\* the user sends: Enter in the input field or the send button; handleSend
\* goes past its early return
Send ==
  /\ ~Blocked(chat)
  /\ chat.turn < MaxTurns
  /\ chat' = HandleSend(chat)
  /\ UNCHANGED <<coordinator, utilities, cancelledEarly>>

\* chatbotAPI.query resolves
QuerySucceeds ==
  /\ chat.turn > 0 /\ chat.answer[chat.turn] = "pending"
  /\ chat' = OnResponse(chat)
  /\ UNCHANGED <<coordinator, utilities, cancelledEarly>>

\* chatbotAPI.query rejects
QueryFails(kind) ==
  /\ chat.turn > 0 /\ chat.answer[chat.turn] = "pending"
  /\ chat' = OnQueryError(chat, kind)
  /\ UNCHANGED <<coordinator, utilities, cancelledEarly>>

\* avatarAPI.speak of turn k resolves, with or without audio_base64
SpeechArrives(k, hasAudio) ==
  /\ chat.speech[k] = "pending"
  /\ chat' = OnSpeechData(chat, k, hasAudio)
  /\ UNCHANGED <<coordinator, utilities, cancelledEarly>>

\* avatarAPI.speak of turn k rejects
SpeechFails(k) ==
  /\ chat.speech[k] = "pending"
  /\ chat' = OnSpeechError(chat, k)
  /\ UNCHANGED <<coordinator, utilities, cancelledEarly>>

\* the user switches auto-speak
ToggleAutoSpeak ==
  /\ chat' = [chat EXCEPT !.autoSpeak = ~@]
  /\ UNCHANGED <<coordinator, utilities, cancelledEarly>>

ChatInit ==
  /\ Mounted
  /\ lookup = NewLookup(<<>>)
  /\ interpolator = NewInterpolator
  /\ interpolated = NotInterpolated
  /\ lastCall = NoCall
  /\ selection = NewSelection(<<>>, <<>>)
  /\ chat \in {NewChat(autoSpeak) : autoSpeak \in BOOLEAN}
  /\ cancelledEarly = 0

ChatNext ==
  \/ \E text \in Inputs : Type(text)
  \/ Send
  \/ QuerySucceeds
  \/ \E kind \in {"server", "noResponse", "setup"} : QueryFails(kind)
  \/ \E k \in Turns, hasAudio \in BOOLEAN : SpeechArrives(k, hasAudio)
  \/ \E k \in Turns : SpeechFails(k)
  \/ ToggleAutoSpeak

ChatSpec == ChatInit /\ [][ChatNext]_vars

\* ------------------------------------- the coordinator with a history variable
\* utterance u is seen cancelled while the 100 ms timer of its delayed play()
\* is still pending: its audio element is no longer audioRef.current.  The
\* first such utterance is remembered; nothing else changes.
ObserveCancelledEarly(u) ==
  /\ cancelledEarly = 0
  /\ playTimer[u]
  /\ audioRef # u
  /\ cancelledEarly' = u
  /\ UNCHANGED <<coordinator, utilities, chat>>

DelayedStartNext ==
  \/ Next
  \/ \E u \in U : ObserveCancelledEarly(u)

DelayedStartSpec == Init /\ [][DelayedStartNext]_vars

\* ------------------------------------------------------------ vocabulary
\* utterance u was cancelled: its cleanup ran and tore its audio element down
Cancelled(u) == audio[u].st = "torn"

\* un-paused and not ended
Playing(u) == ~audio[u].paused /\ ~audio[u].ended

\* a startAnimation poll chain or an animate chain of utterance u is scheduled
LoopLive(u) == startTimer[u] # "none" \/ u \in rafPending

\* this step is a change of currentSpeech
ArrivalStep == nextUtt' # nextUtt

\* this step delivers the error event of utterance u's audio
ErrorStep(u) == audio[u].st # "failed" /\ audio'[u].st = "failed"

\* this step delivers the ended event of utterance u's audio
EndedStep(u) == audio[u].endedEv /\ ~audio'[u].endedEv /\ audio'[u].st = "ready"

\* this step runs an animate tick of utterance u that reads an audio element
TickStep(u) == audioRef # 0 /\ Animate(u)

\* ------------------------------------------------------------------ C1
\* C1: a change of currentSpeech that arrives while an utterance is playing
\* with the guard set is dropped and leaves the playing utterance as it was:
\* audio elements, scheduled ticks, guard, speaking flag, viseme index and
\* progress are unchanged by the arrival.
C1_ArrivalDroppedWhilePlaying ==
  [][(ArrivalStep /\ isPlayingRef /\ audioRef # 0 /\ Playing(audioRef))
       => UNCHANGED <<audioRef, audio, rafPending, isPlayingRef, isSpeaking,
                      visemeIndex, progress>>]_vars

\* ------------------------------------------------------------------ C2
\* a callback registered by utterance u acts in this step
CallbackActs(u) ==
  \/ StartAnimation(u)
  \/ Animate(u)
  \/ \E allowed \in BOOLEAN : PlayTimer(u, allowed) /\ audio' # audio
  \/ PlayEvent(u)
  \/ EndedEvent(u)
  \/ AudioError(u)

\* C2: once an utterance is cancelled, none of its callbacks acts again: no
\* startAnimation poll re-arms or starts a loop, no animate tick runs, the
\* delayed play does not call play(), no audio handler changes state.
C2_NoCallbackAfterCancel ==
  [][\A u \in U : Cancelled(u) => ~CallbackActs(u)]_vars

\* ------------------------------------------------------------------ C3
\* C3: no orphaned loops: a scheduled startAnimation poll chain or animate
\* chain always belongs to the utterance whose effect is current, never to a
\* cancelled one, so at most one render loop is live.
C3_NoOrphanedLoop ==
  /\ \A u \in U : LoopLive(u) => ~Cancelled(u)
  /\ Cardinality({u \in U : LoopLive(u)}) <= 1

\* ------------------------------------------------------------------ C4
\* C4: an audio element other than audioRef.current is paused and detached
\* (or not yet created), an un-paused element is audioRef.current, and so at
\* most one audio element is playing.
C4_SingleAudio ==
  /\ \A u \in U : audio[u].st \notin {"none", "torn"} => audioRef = u
  /\ \A u \in U : ~audio[u].paused => audioRef = u
  /\ Cardinality({u \in U : Playing(u)}) <= 1

\* C4 witness: the second utterance plays after the first was torn down
C4_Witness ==
  /\ audio[1].st = "torn"
  /\ audio[2].st = "ready" /\ Playing(2) /\ audio[2].currentTime > 0

\* ------------------------------------------------------------------ C5
\* C5: the guard never stays set for ever: from every state in which
\* isPlayingRef is true a state in which it is false follows (end, error,
\* rejected play, loop termination or cancellation clears it).
C5_GuardEventuallyCleared == isPlayingRef ~> ~isPlayingRef

\* C5 witness: the guard is set while an utterance without visemes (no loop
\* to clear it) is playing
C5_Witness ==
  /\ isPlayingRef
  /\ audioRef # 0 /\ Playing(audioRef)
  /\ \A u \in U : ~LoopLive(u)

\* ------------------------------------------------------------------ C6
\* C6: the guard is set before play() is invoked: while the play event of the
\* current audio is still queued (play() was called) the guard is true.
C6_GuardSetBeforePlay ==
  \A u \in U : (audioRef = u /\ audio[u].playEv) => isPlayingRef

\* ------------------------------------------------------------------ C7
\* C7: the error event of the current audio element leaves the guard and the
\* speaking flag false and the published viseme index and progress zero.
C7_ErrorResetsAll ==
  [][\A u \in U : (audioRef = u /\ ErrorStep(u))
       => /\ ~isPlayingRef' /\ ~isSpeaking'
          /\ visemeIndex' = 0 /\ progress' = ZeroFrac]_vars

\* ------------------------------------------------------------------ C8
\* C8: the ended event of the current audio element leaves the guard false,
\* the speaking flag false and viseme index, progress, audio time and audio
\* duration zero, whatever the state it fires in.
C8_EndedResetsAll ==
  [][\A u \in U : EndedStep(u)
       => /\ ~isPlayingRef' /\ ~isSpeaking'
          /\ visemeIndex' = 0 /\ progress' = ZeroFrac
          /\ audioTime' = 0 /\ audioDuration' = 0]_vars

\* C8 witness: the ended event was delivered while a tick of the utterance's
\* loop was still requested, and everything published is zero
C8_Witness ==
  \E u \in U :
    /\ audioRef = u /\ audio[u].ended /\ ~audio[u].endedEv /\ audio[u].paused
    /\ u \in rafPending
    /\ ~isPlayingRef /\ ~isSpeaking /\ visemeIndex = 0 /\ progress = ZeroFrac
    /\ audioTime = 0 /\ audioDuration = 0

\* ------------------------------------------------------------------ C9
\* C9: a tick that finds the audio neither paused nor ended requests exactly
\* one further tick (its handle in animationRef); a tick that finds it paused
\* or ended requests none and leaves viseme index 0, progress 0, audio time
\* 0, guard false and speaking false.
C9_TickContinuesOrResets ==
  [][\A u \in U : TickStep(u) =>
       IF ~audio[audioRef].paused /\ ~audio[audioRef].ended
       THEN u \in rafPending' /\ animationRef' = u
       ELSE /\ u \notin rafPending'
            /\ visemeIndex' = 0 /\ progress' = ZeroFrac /\ audioTime' = 0
            /\ ~isPlayingRef' /\ ~isSpeaking']_vars

\* C9 witness: a loop has terminated on an ended audio (the last tick
\* published the duration it read and then reset the rest)
C9_Witness ==
  /\ audioRef # 0 /\ audio[audioRef].ended
  /\ rafPending = {} /\ \A u \in U : startTimer[u] = "none"
  /\ audioDuration = audio[audioRef].duration
  /\ visemeIndex = 0 /\ progress = ZeroFrac /\ audioTime = 0
  /\ ~isPlayingRef /\ ~isSpeaking

\* ------------------------------------------------------------------ C10
\* C10: within one utterance scaleVisemes computes a rescaled sequence at
\* most once, whatever the positive durations and the number of ticks.
C10_RescaleAtMostOnce == \A u \in U : scaleRuns[u] <= 1

\* ------------------------------------------------ vocabulary of the units
\* the sequence seq with every start and duration multiplied by factor
ScaledBy(seq, factor) ==
  [i \in 1..Len(seq) |->
     [seq[i] EXCEPT !.start = FMul(OrZero(seq[i].start), factor),
                    !.duration = FMul(OrZero(seq[i].duration), factor)]]

\* actualDuration / estimatedDuration for the sequence vd
FactorFor(vd, actualDuration) ==
  Frac(actualDuration * EstimatedDuration(vd)[2], EstimatedDuration(vd)[1])

\* a / b for b > 0
FDiv(a, b) == Frac(a[1] * b[2], a[2] * b[1])

\* the sequence the lookups read, and the original it was made from
LookupSequence == lookup.clo.scaledVisemes
OriginalSequence == lookup.clo.visemeData

\* start <= t < start + duration, absent fields counting 0
InInterval(v, t) ==
  /\ FLe(OrZero(v.start), t)
  /\ FLt(t, FAdd(OrZero(v.start), OrZero(v.duration)))

\* the events of seq whose [start, end) the lookup finds t in
Holders(seq, t) == {i \in 1..Len(seq) : Within(seq[i], t)}

SortedByStart(seq) ==
  \A i \in 1..(Len(seq) - 1) : FLe(OrZero(seq[i].start), OrZero(seq[i + 1].start))

\* seq with every absent viseme, start and duration replaced by 0
Defaulted(seq) ==
  [i \in 1..Len(seq) |->
     [seq[i] EXCEPT !.viseme = Category(seq[i]), !.start = OrZero(seq[i].start),
                    !.duration = OrZero(seq[i].duration)]]

\* the first of the events of seq whose start is nearest to t
Nearest(seq, t) ==
  LET away == [i \in 1..Len(seq) |-> FDist(t, OrZero(seq[i].start))] IN
  CHOOSE i \in 1..Len(seq) :
    \A j \in 1..Len(seq) :
      /\ FLe(away[i], away[j])
      /\ j < i => FLt(away[i], away[j])

\* ------------------------------------------------------------------ C11
\* C11: the visemeData of a closure is the sequence the utterance came with,
\* and its scaledVisemes is that sequence with every start and duration
\* multiplied by one factor, 1 or actualDuration / estimatedDuration: for the
\* current utterance the duration of its own audio, and never a product of
\* two rescales, however often scaleVisemes has run.
C11_ScaledByOneFactor ==
  \A u \in U :
    /\ visemeData[u] \in {<<>>, VisemeData(NumVisemes)}
    /\ \E factor \in {One} \cup {FactorFor(visemeData[u], d) : d \in 1..MaxDur} :
         scaledVisemes[u] = ScaledBy(visemeData[u], factor)
    /\ (audioRef = u /\ Positive(audio[u].duration))
         => \E factor \in {One, FactorFor(visemeData[u], audio[u].duration)} :
              scaledVisemes[u] = ScaledBy(visemeData[u], factor)

\* C11 witness: the current utterance's loop has ticked on a sequence rescaled
\* to half its length
C11_Witness ==
  \E u \in U :
    /\ audioRef = u /\ u \in rafPending /\ lastVisemeIndex[u] # -1
    /\ durationScale[u] = <<1, 2>>
    /\ scaledVisemes[u] # visemeData[u]
    /\ scaledVisemes[u] = ScaledBy(visemeData[u], <<1, 2>>)

\* ------------------------------------------------------------------ C12
\* C12: scaleVisemes called with an estimated or an actual duration that is
\* not positive leaves the original sequence, unchanged, as the sequence
\* used for lookups; and as long as no rescale with a positive duration has
\* happened the lookups read the original sequence.
C12_IdentityUnlessBothPositive ==
  /\ lookup.clo.scaleRuns = 0 => LookupSequence = OriginalSequence
  /\ (/\ lookup.rescaled
      /\ ~(FLt(ZeroFrac, EstimatedDuration(OriginalSequence))
             /\ Positive(lookup.actualDuration)))
       => LookupSequence = OriginalSequence

\* C12 witness: a lookup on a sequence that had been rescaled and was then
\* put back by a call without a positive duration
C12_Witness ==
  /\ lookup.asked
  /\ lookup.rescaled /\ ~Positive(lookup.actualDuration)
  /\ lookup.clo.durationScale # One
  /\ Len(OriginalSequence) > 0
  /\ LookupSequence = OriginalSequence

\* ------------------------------------------------------------------ C13
\* C13: on a non-empty sequence sorted by start, for a time within
\* [first.start, last.end) that exactly one event's [start, end) holds,
\* getVisemeAtTime returns that event's category, by linear scan (fewer than
\* 50 events) and by bisection (50 or more) alike.
C13_LookupFindsTheOnlyHolder ==
  (/\ lookup.asked
   /\ Len(LookupSequence) > 0
   /\ SortedByStart(LookupSequence)
   /\ FLe(OrZero(LookupSequence[1].start), lookup.audioTime)
   /\ LET last == LookupSequence[Len(LookupSequence)]
      IN FLt(lookup.audioTime, EndOf(last, OrZero(last.start)))
   /\ Cardinality(Holders(LookupSequence, lookup.audioTime)) = 1)
    => \A i \in Holders(LookupSequence, lookup.audioTime) :
         lookup.visemeAtTime = Category(LookupSequence[i])

\* ------------------------------------------------------------------ C14
\* C14: when no event's [start, end) holds the time, getVisemeAtTime returns
\* the last event's category if the time is before the last event's end and
\* 0 otherwise.
C14_FallbackToLastOrSilence ==
  (/\ lookup.asked
   /\ Len(LookupSequence) > 0
   /\ Holders(LookupSequence, lookup.audioTime) = {})
    => LET last == LookupSequence[Len(LookupSequence)] IN
       lookup.visemeAtTime =
         IF FLt(lookup.audioTime, EndOf(last, OrZero(last.start)))
         THEN Category(last) ELSE 0

\* C14 witness: a time in a gap before the last event resolved to the last
\* event's category
C14_Witness ==
  /\ lookup.asked
  /\ Len(LookupSequence) > 1
  /\ Holders(LookupSequence, lookup.audioTime) = {}
  /\ lookup.visemeAtTime = Category(LookupSequence[Len(LookupSequence)])
  /\ lookup.visemeAtTime # 0

\* ------------------------------------------------------------------ C15
\* C15: getVisemeAtTime returns 0 on the empty sequence, and on a sequence
\* with absent viseme, start or duration fields what it returns on the same
\* sequence with each absent field replaced by 0.
C15_AbsentFieldsReadAsZero ==
  lookup.asked =>
    /\ Len(LookupSequence) = 0 => lookup.visemeAtTime = 0
    /\ lookup.visemeAtTime = GetVisemeAtTime(lookup.audioTime, Defaulted(LookupSequence))

\* ------------------------------------------------------------------ C16
\* C16: on a sequence rescaled by s = actual / estimated, the lookup at a
\* time s * t returns what the lookup on the original sequence returns at t.
C16_RescaleCommutesWithLookup ==
  (/\ lookup.asked
   /\ lookup.clo.scaleRuns > 0
   /\ LookupSequence = ScaledBy(OriginalSequence, lookup.clo.durationScale))
    => lookup.visemeAtTime =
         GetVisemeAtTime(FDiv(lookup.audioTime, lookup.clo.durationScale),
                         OriginalSequence)

\* ------------------------------------------------------------------ C17
\* C17: at a time inside some event's [start, start + duration) the category
\* the render loop resolves is the one getVisemeAtTime returns for the same
\* sequence.
C17_LoopAgreesWithLookup ==
  (/\ lookup.asked
   /\ \E i \in 1..Len(LookupSequence) : InInterval(LookupSequence[i], lookup.audioTime))
    => lookup.currentViseme = lookup.visemeAtTime

\* ------------------------------------------------------------------ C18
\* C18: at a time inside no event's [start, start + duration) the render loop
\* resolves the category of the event whose start is nearest (the first of
\* them when several are equally near) if that start is less than 0.2 s away,
\* and 0 otherwise.
C18_NearestWithinWindow ==
  (/\ lookup.asked
   /\ Len(LookupSequence) > 0
   /\ \A i \in 1..Len(LookupSequence) : ~InInterval(LookupSequence[i], lookup.audioTime))
    => LET n == Nearest(LookupSequence, lookup.audioTime) IN
       lookup.currentViseme =
         IF FLt(FDist(lookup.audioTime, OrZero(LookupSequence[n].start)),
                <<FallbackWindowTenths, 10>>)
         THEN Category(LookupSequence[n]) ELSE 0

\* C18 witness: two events start equally near the time, 0.1 s away, neither
\* holds it, the second has another category, and the first one's is resolved
C18_Witness ==
  /\ lookup.asked
  /\ Len(LookupSequence) > 1
  /\ \A i \in 1..Len(LookupSequence) : ~InInterval(LookupSequence[i], lookup.audioTime)
  /\ FDist(lookup.audioTime, OrZero(LookupSequence[1].start)) = <<1, 10>>
  /\ FDist(lookup.audioTime, OrZero(LookupSequence[2].start)) = <<1, 10>>
  /\ Category(LookupSequence[1]) # Category(LookupSequence[2])
  /\ lookup.currentViseme = Category(LookupSequence[1])
  /\ lookup.currentViseme # 0

\* a lies between b and c inclusive
Between(a, b, c) == (b <= a /\ a <= c) \/ (c <= a /\ a <= b)

\* ------------------------------------------------------------------ C19
\* C19: whatever time getInterpolatedFrame is called with, a time before
\* transitionStartTime included, the frame it returns lies between
\* currentFrame and targetFrame inclusive.
C19_FrameNeverOvershoots ==
  interpolated.called =>
    Between(interpolated.frame, interpolator.currentFrame, interpolator.targetFrame)

\* ------------------------------------------------------------------ C20
\* C20: during a transition to F started at t0, for times t0 <= t1 <= t2 <
\* t0 + transitionDuration the frame returned at t2 is at least as near to F
\* as the one returned at t1, and every frame returned in that window is an
\* integer between the snapshotted currentFrame and F inclusive.
C20_MonotoneApproach ==
  LET t0 == interpolator.transitionStartTime
      F == interpolator.targetFrame
      window == {t \in Nows : t0 <= t /\ t < t0 + interpolator.transitionDuration}
  IN interpolator.isTransitioning =>
       /\ \A t1, t2 \in window :
            t1 <= t2 => Abs(F - InterpolatedFrame(interpolator, t2))
                          <= Abs(F - InterpolatedFrame(interpolator, t1))
       /\ \A t \in window :
            /\ InterpolatedFrame(interpolator, t) \in Int
            /\ Between(InterpolatedFrame(interpolator, t), interpolator.currentFrame, F)
       /\ (interpolated.called /\ interpolated.currentTime \in window)
            => /\ interpolated.frame = InterpolatedFrame(interpolator, interpolated.currentTime)
               /\ Between(interpolated.frame, interpolator.currentFrame, F)

\* C20 witness: half-way through a transition over two frames, the frame
\* returned is the one in between
C20_Witness ==
  /\ interpolator.isTransitioning
  /\ Abs(interpolator.targetFrame - interpolator.currentFrame) = 2
  /\ interpolated.called
  /\ interpolated.currentTime = interpolator.transitionStartTime + 2
  /\ interpolated.frame # interpolator.currentFrame
  /\ interpolated.frame # interpolator.targetFrame

\* ------------------------------------------------------------------ C21
\* C21: a call of getInterpolatedFrame at or after transitionStartTime +
\* transitionDuration of a transition in progress returns the target frame
\* and leaves the interpolator idle with currentFrame = targetFrame; a call
\* on an idle interpolator returns the target frame and changes nothing.
C21_ReachesTargetAndStays ==
  LET before == lastCall.before
  IN lastCall.op = "getInterpolatedFrame" =>
       /\ (/\ before.isTransitioning
           /\ lastCall.currentTime
                >= before.transitionStartTime + before.transitionDuration)
            => /\ interpolated.frame = before.targetFrame
               /\ ~interpolator.isTransitioning
               /\ interpolator.currentFrame = before.targetFrame
               /\ interpolator.targetFrame = before.targetFrame
       /\ ~before.isTransitioning
            => /\ interpolated.frame = before.targetFrame
               /\ interpolator = before
               /\ before.currentFrame = before.targetFrame

\* C21 witness: a transition started after time 0 to another frame is
\* closed by a call exactly transitionDuration later
C21_Witness ==
  /\ lastCall.op = "getInterpolatedFrame"
  /\ lastCall.before.isTransitioning
  /\ lastCall.before.transitionStartTime > 0
  /\ lastCall.before.currentFrame # lastCall.before.targetFrame
  /\ lastCall.currentTime
       = lastCall.before.transitionStartTime + lastCall.before.transitionDuration
  /\ interpolated.frame = lastCall.before.targetFrame
  /\ ~interpolator.isTransitioning

\* ------------------------------------------------------------------ C22
\* C22: after setTargetFrame(F, t0) with F other than the target,
\* getInterpolatedFrame(t0) returns the frame getInterpolatedFrame(t0)
\* returned just before the call, whatever the state before.
C22_StartsFromDisplayedFrame ==
  (/\ lastCall.op = "setTargetFrame"
   /\ lastCall.frame # lastCall.before.targetFrame
   /\ lastCall.shown.called
   /\ lastCall.shown.currentTime = lastCall.currentTime)
    => InterpolatedFrame(interpolator, lastCall.currentTime) = lastCall.shown.frame

\* ------------------------------------------------------------------ C23
\* C23: setTargetFrame with the frame that is already the target leaves
\* currentFrame, targetFrame, transitionStartTime and isTransitioning as
\* they were.
C23_SameFrameChangesNothing ==
  (lastCall.op = "setTargetFrame" /\ lastCall.frame = lastCall.before.targetFrame)
    => interpolator = lastCall.before

\* C23 witness: the target frame is set again, later, during its transition
C23_Witness ==
  /\ lastCall.op = "setTargetFrame"
  /\ lastCall.frame = lastCall.before.targetFrame
  /\ lastCall.before.isTransitioning
  /\ lastCall.currentTime > lastCall.before.transitionStartTime
  /\ interpolator.isTransitioning

\* ------------------------------------------------------------------ C24
\* C24: reset() leaves isTransitioning false, currentFrame = targetFrame,
\* transitionStartTime 0 and the target as it was; getInterpolatedFrame then
\* returns targetFrame at every time and changes nothing.
C24_ResetQuiesces ==
  lastCall.op = "reset" =>
    /\ ~interpolator.isTransitioning
    /\ interpolator.currentFrame = interpolator.targetFrame
    /\ interpolator.transitionStartTime = 0
    /\ interpolator.targetFrame = lastCall.before.targetFrame
    /\ \A now \in Nows :
         /\ InterpolatedFrame(interpolator, now) = interpolator.targetFrame
         /\ AfterInterpolation(interpolator, now) = interpolator

\* C24 witness: reset in the middle of a transition that started after time 0
C24_Witness ==
  /\ lastCall.op = "reset"
  /\ lastCall.before.isTransitioning
  /\ lastCall.before.currentFrame # lastCall.before.targetFrame
  /\ lastCall.before.transitionStartTime > 0
  /\ ~interpolator.isTransitioning

\* ------------------------------------------------------ selector vocabulary
\* the elements of a sequence
Range(seq) == {seq[i] : i \in 1..Len(seq)}

\* the requested category's entry and category 0's entry of the frame map
OwnEntry == MapEntry(selection.visemeFrameMap, selection.visemeIndex)
SilenceEntry == MapEntry(selection.visemeFrameMap, 0)

\* the candidate list the call worked with
Candidates == CandidateFrames(selection.visemeIndex, selection.visemeFrameMap)

\* the events that hold the time asked for and have the category asked for
Matching ==
  {i \in 1..Len(selection.visemeSequence) :
     /\ Within(selection.visemeSequence[i], selection.audioTime)
     /\ selection.visemeSequence[i].viseme = selection.visemeIndex}

\* those of them with a positive duration
MatchingPositive ==
  {i \in Matching :
     /\ selection.visemeSequence[i].duration # Missing
     /\ FLt(ZeroFrac, selection.visemeSequence[i].duration)}

\* the least of a non-empty set of numbers
Least(S) == CHOOSE i \in S : \A j \in S : i <= j

\* the candidate for a time in the n-th eighth of a second, counted from 0,
\* after the start of event i
Cycled(i) ==
  LET start == OrZero(selection.visemeSequence[i].start)
      n == CHOOSE m \in 0..MaxTenths :
             /\ FLe(FAdd(start, Frac(m, CycleRate)), selection.audioTime)
             /\ FLt(selection.audioTime, FAdd(start, Frac(m + 1, CycleRate)))
  IN Candidates[(n % Len(Candidates)) + 1]

\* ------------------------------------------------------------------ C25
\* C25 (as stated): when the requested category's entry is absent or empty,
\* the frame comes from category 0's list when that has frames, and is 1
\* when category 0's entry is absent or empty too.
C25_AbsentOrEmptyFallsBack ==
  (selection.asked /\ (~OwnEntry.has \/ OwnEntry.frames = <<>>)) =>
    IF SilenceEntry.has /\ SilenceEntry.frames # <<>>
    THEN selection.frame \in Range(SilenceEntry.frames)
    ELSE selection.frame = 1

\* C25 (amended): when the map has no entry for the requested category, the
\* frame comes from category 0's list, and is 1 when category 0 has no entry
\* or an empty one; an entry that is present and empty is kept: the frame
\* is 1 whatever category 0 has.
C25_AbsentFallsBack ==
  selection.asked =>
    /\ (~OwnEntry.has /\ SilenceEntry.has /\ SilenceEntry.frames # <<>>)
         => /\ Candidates = SilenceEntry.frames
            /\ selection.frame \in Range(SilenceEntry.frames)
    /\ (~OwnEntry.has /\ ~SilenceEntry.has)
         => Candidates = <<1>> /\ selection.frame = 1
    /\ (~OwnEntry.has /\ SilenceEntry.has /\ SilenceEntry.frames = <<>>)
         => selection.frame = 1
    /\ (OwnEntry.has /\ OwnEntry.frames = <<>>) => selection.frame = 1

\* C25 witness: a category without entry is asked for at a time one of its
\* events holds, and the frame is one of category 0's other than the first
C25_Witness ==
  /\ selection.asked
  /\ selection.visemeIndex = 5
  /\ ~OwnEntry.has
  /\ SilenceEntry.has
  /\ Matching # {}
  /\ selection.frame \in Range(SilenceEntry.frames)
  /\ selection.frame # SilenceEntry.frames[1]

\* ------------------------------------------------------------------ C26
\* C26 (as stated): with a non-empty candidate list the frame is a member of
\* the list; it is the cycled candidate of the first event that holds the
\* time, has the category and has a positive duration, when there is one,
\* and the first candidate otherwise.
C26_CyclesInFirstPositiveEvent ==
  (selection.asked /\ Len(Candidates) > 0) =>
    /\ selection.frame \in Range(Candidates)
    /\ selection.frame = IF MatchingPositive # {}
                         THEN Cycled(Least(MatchingPositive))
                         ELSE Candidates[1]

\* C26 (amended): with a non-empty candidate list the frame is a member of
\* the list; it is the cycled candidate of the first event that holds the
\* time and has the category, when there is one and its duration is present
\* and not 0, and the first candidate otherwise.
C26_CyclesInFirstEvent ==
  (selection.asked /\ Len(Candidates) > 0) =>
    /\ selection.frame \in Range(Candidates)
    /\ selection.frame =
         IF Matching # {}
            /\ selection.visemeSequence[Least(Matching)].duration \notin {Missing, ZeroFrac}
         THEN Cycled(Least(Matching))
         ELSE Candidates[1]

\* C26 witness: the second event starts at 0.5 s, holds the time with the
\* category asked for, and the frame is a later candidate of its cycle
C26_Witness ==
  /\ selection.asked
  /\ Len(Candidates) > 1
  /\ Matching = {2}
  /\ selection.visemeSequence[2].start = <<1, 2>>
  /\ selection.visemeSequence[2].duration = <<1, 2>>
  /\ selection.frame = Cycled(2)
  /\ selection.frame # Candidates[1]

\* ------------------------------------------------------------------ C27
\* a number between 0 and 100
Percentage(x) == x[2] > 0 /\ 0 <= x[1] /\ x[1] <= 100 * x[2]

\* C27: on every tick of every render loop the value passed to setProgress,
\* computed from the audio element the tick reads, is a number within
\* [0, 100], and so is the progress the tick leaves.
C27_ProgressWithinRange ==
  [][\A u \in U :
       TickStep(u) => /\ Percentage(PublishedProgress(audio[audioRef]))
                      /\ Percentage(progress')]_vars

\* ------------------------------------------------------------------ C28
\* C28: at most one tick is pending at a time; a tick that goes on publishes
\* the audio time it read from the current audio element in the same step;
\* and the audio time published never runs ahead of that element's clock,
\* so that, the clock never going back while the element is the current
\* one, successive ticks publish non-decreasing audio times.
C28_UpdatesInPlaybackOrder ==
  [][/\ Cardinality(rafPending') <= 1
     /\ audioRef' # 0 => audioTime' <= audio'[audioRef'].currentTime
     /\ audioRef' = audioRef /\ audioRef # 0
          => audio'[audioRef].currentTime >= audio[audioRef].currentTime
     /\ \A u \in U :
          (TickStep(u) /\ KeepsRunning(audio[audioRef]))
            => audioTime' = audio[audioRef].currentTime]_vars

\* ------------------------------------------------------- chat vocabulary
\* the addMessage calls of turn k with the given role
Said(role, k) ==
  {i \in 1..Len(chat.messages) :
     chat.messages[i].role = role /\ chat.messages[i].turn = k}

\* ------------------------------------------------------------------ C29
\* C29: once the query of a turn has succeeded, the turn has its one
\* assistant message and no error message, and isLoading is false unless a
\* later turn is under way, whatever has become of the turn's speech
\* request (pending, audio received, no audio, failed).
C29_SpeechDoesNotHoldTheTurn ==
  \A k \in Turns :
    chat.answer[k] = "answered" =>
      /\ Cardinality(Said("assistant", k)) = 1
      /\ Said("error", k) = {}
      /\ k = chat.turn => ~chat.isLoading

\* C29 witness: two answered turns, the speech request of the first has
\* failed and the one of the second has not returned, and nothing is loading
C29_Witness ==
  /\ chat.turn = 2
  /\ chat.answer[1] = "answered" /\ chat.speech[1] = "failed"
  /\ chat.answer[2] = "answered" /\ chat.speech[2] = "pending"
  /\ ~chat.isLoading
  /\ Len(chat.messages) = 4

\* ------------------------------------------------------------------ C30
\* C30: a turn whose query failed has exactly one error message and no
\* assistant message; a turn whose query succeeded has exactly one assistant
\* message and no error message; a turn still waiting has neither.
C30_OneErrorOrOneAnswer ==
  \A k \in Turns :
    /\ chat.answer[k] = "failed"
         => Cardinality(Said("error", k)) = 1 /\ Said("assistant", k) = {}
    /\ chat.answer[k] = "answered"
         => Cardinality(Said("assistant", k)) = 1 /\ Said("error", k) = {}
    /\ chat.answer[k] \in {"none", "pending"}
         => Said("error", k) = {} /\ Said("assistant", k) = {}

\* C30 witness: a failed turn followed by an answered one
C30_Witness ==
  /\ chat.answer[1] = "failed"
  /\ chat.answer[2] = "answered"
  /\ chat.messages[2].role = "error"
  /\ chat.messages[4].role = "assistant"

\* ------------------------------------------------------------------ C31
\* this step is the arrival of the response of the turn under way
ResponseStep ==
  /\ chat.turn > 0
  /\ chat.answer[chat.turn] = "pending"
  /\ chat'.answer[chat.turn] = "answered"

\* this step issues the speech request avatarAPI.speak of turn k
SpeechRequested(k) == chat.speech[k] # "pending" /\ chat'.speech[k] = "pending"

\* this step hands turn k's speech to the avatar: speak(text, audio, visemes)
SpeakCalled(k) == chat.speech[k] # "spoken" /\ chat'.speech[k] = "spoken"

\* C31: a speech request is issued exactly in the step in which a response
\* arrives while the auto-speak switch is on, once per response (no request
\* was issued for the turn before); speak() is called only for a request that
\* was pending; while the switch is off no request is issued.
C31_SpeechFollowsAutoSpeak ==
  [][/\ ResponseStep => (SpeechRequested(chat.turn) <=> chat.autoSpeak)
     /\ \A k \in Turns :
          /\ SpeechRequested(k)
               => ResponseStep /\ k = chat.turn /\ chat.speech[k] = "none"
          /\ SpeakCalled(k) => chat.speech[k] = "pending"
          /\ ~chat.autoSpeak => ~SpeechRequested(k)]_vars

\* ------------------------------------------------------------------ C32
\* this step cancels the utterance whose effect is current: React runs its
\* cleanup because currentSpeech changes or the component unmounts
CancelStep == cleanupOf # 0 /\ (ArrivalStep \/ (mounted /\ ~mounted'))

\* C32: the step that cancels an utterance leaves viseme index, progress,
\* audio time and audio duration zero, the speaking flag and the guard
\* false, the utterance's audio paused and none of its ticks requested.
C32_CancelResetsAll ==
  [][CancelStep
       => /\ visemeIndex' = 0 /\ progress' = ZeroFrac
          /\ audioTime' = 0 /\ audioDuration' = 0
          /\ ~isSpeaking' /\ ~isPlayingRef'
          /\ audio'[cleanupOf].paused
          /\ cleanupOf \notin rafPending']_vars

\* ------------------------------------------------------------------ C33
\* this step runs a startAnimation or animate callback of utterance u that
\* finds an audio element in audioRef.current and reads it
ReadsAudio(u) == audioRef # 0 /\ (StartAnimation(u) \/ Animate(u))

\* C33: a startAnimation or animate callback created for utterance u reads
\* only the audio element created for u: whenever it finds an element in
\* audioRef.current, that element is u's.
C33_LoopReadsOwnAudio ==
  [][\A u \in U : ReadsAudio(u) => audioRef = u]_vars

\* ------------------------------------------------------------------ C34
\* utterance u's startAnimation has started its loop: the timer chain is
\* over and the loop's start has rescaled u's visemes
LoopStarted(u) == startTimer[u] = "none" /\ scaleRuns[u] > 0

\* C34: while the audio of the current utterance is playing and has not
\* ended, a loop that was started for it still has a tick requested: the loop
\* has not terminated itself on the audio it found paused before the delayed
\* play() was called.
C34_LoopOutlivesTheStartDelay ==
  \A u \in U :
    (audioRef = u /\ Ready(audio[u]) /\ Playing(u) /\ LoopStarted(u))
      => u \in rafPending

\* ------------------------------------------------------------------ C35
\* C35: an utterance that was cancelled while the timer of its delayed
\* play() was pending never begins playback: at every later moment, before
\* and after the timer fires, its audio element is the paused, detached
\* element the cancellation left and no play event is queued for it.
C35_CancelledEarlyNeverPlays ==
  cancelledEarly # 0 =>
    /\ audio[cancelledEarly] = TornAudio
    /\ audioRef # cancelledEarly

\* C35 witness: the delayed-start timer of the utterance cancelled early has
\* fired while a later utterance was current, and its audio has stayed paused
C35_Witness ==
  /\ cancelledEarly = 1
  /\ ~playTimer[1]
  /\ audio[1].paused /\ ~audio[1].playEv
  /\ audioRef = 2

\* ------------------------------------------------------------------ C36
\* C36: the guard isPlayingRef.current and the speaking flag published
\* through updateSpeakingState have the same value in every reachable state
\* of the coordinator.
C36_GuardIsSpeaking == isPlayingRef = isSpeaking

\* C36 witness: after a cancellation and a playback, the guard and the flag
\* are both clear while the second utterance's audio has ended and no tick
\* is requested
C36_Witness ==
  /\ audio[1].st = "torn"
  /\ audioRef = 2 /\ ~audio[2].paused /\ audio[2].ended
  /\ ~isPlayingRef /\ ~isSpeaking
  /\ rafPending = {}

\* ------------------------------------------------------------------ C37
\* C37: in every state of a FrameInterpolator reached from the constructor
\* by setTargetFrame, getInterpolatedFrame and reset calls, an idle
\* interpolator (isTransitioning false) has currentFrame = targetFrame.
C37_IdleHasOneFrame ==
  ~interpolator.isTransitioning
    => interpolator.currentFrame = interpolator.targetFrame

\* C37 witness: getInterpolatedFrame has just closed a transition between
\* two different frames, and the interpolator is idle on the target
C37_Witness ==
  /\ lastCall.op = "getInterpolatedFrame"
  /\ lastCall.before.isTransitioning
  /\ lastCall.before.currentFrame # lastCall.before.targetFrame
  /\ ~interpolator.isTransitioning
  /\ interpolator.currentFrame = lastCall.before.targetFrame
  /\ interpolator.targetFrame = lastCall.before.targetFrame

\* ------------------------------------------------------------------ C38
\* the turns whose query is in flight
InFlight == {k \in Turns : chat.answer[k] = "pending"}

\* C38: no run of handleSend got past a blank input or a loading query:
\* every user message is a trimmed, non-empty text, the messages alternate
\* turn by turn, the user message first and then the turn's one assistant or
\* error message (missing only while the last turn's query is in flight);
\* isLoading is true exactly while a query is in flight, and at most one is.
C38_OneQueryAtATime ==
  /\ chat.isLoading <=> InFlight # {}
  /\ InFlight \subseteq {chat.turn}
  /\ Cardinality(InFlight) <= 1
  /\ Len(chat.messages) = 2 * chat.turn - Cardinality(InFlight)
  /\ \A i \in 1..Len(chat.messages) :
       LET m == chat.messages[i] IN
       /\ m.turn = (i + 1) \div 2
       /\ IF i % 2 = 1
          THEN /\ m.role = "user"
               /\ m.content # <<>>
               /\ Trim(m.content) = m.content
          ELSE m.role = IF chat.answer[m.turn] = "answered"
                        THEN "assistant" ELSE "error"

\* C38 witness: the first turn failed; the second was accepted, its user
\* message is the trimmed text, the input is cleared and its query is in
\* flight
C38_Witness ==
  /\ chat.turn = 2
  /\ chat.answer[1] = "failed"
  /\ chat.answer[2] = "pending"
  /\ chat.isLoading
  /\ chat.input = <<>>
  /\ Len(chat.messages) = 3
  /\ chat.messages[3].content = <<"a">>

====
